---- MODULE Spec2Model ----
(***************************************************************************)
(* The tunnel-starfield engines of src/src/services/Starfield.js: the      *)
(* fixed-capacity Starfield class and the configurable Starstream class.   *)
(*                                                                         *)
(* Numbers.  The code computes in IEEE doubles.  Here every world value    *)
(* (x, y, z, width, height, speed, radii of the dead zone) is an integer:  *)
(* Math.random() is drawn from the multiples of 1/RandDen in [0, 1) and    *)
(* the viewports are chosen so that the products the code forms with them  *)
(* are whole.  The base radius of a star is kept in eighths (8 = 1.0).     *)
(* A projected screen coordinate is an exact fraction <<n, d>> in lowest   *)
(* terms with d > 0; the three non-finite doubles are <<1, 0>> (Infinity), *)
(* <<-1, 0>> (-Infinity) and <<0, 0>> (NaN).                               *)
(***************************************************************************)
EXTENDS Integers, Sequences, FiniteSets, TLC

VARIABLES
  variant,          \* which class is constructed: "Starfield" or "Starstream"
  cfg,              \* the constructor's arguments (config object / numStars)
  canvasEl,         \* the DOM: "missing" (no element), "noctx" (getContext gives null), "ok"
  innerWidth,       \* window.innerWidth
  innerHeight,      \* window.innerHeight
  devicePixelRatio, \* window.devicePixelRatio (0: undefined or 0)
  pc,               \* "new", "thrown", "initStars", "respawn", "idle"
  width,            \* this.width
  height,           \* this.height
  maxRadius,        \* this.maxRadius (Starstream)
  canvas,           \* canvas.width, canvas.height (the backing store)
  transform,        \* scale of ctx.setTransform, 0 before the first call
  listener,         \* the window 'resize' listener is registered
  resizeTimer,      \* a debounce timeout is pending
  rafPending,       \* requestAnimationFrame(this.draw) is pending
  stars,            \* this.stars
  cur,              \* index of the star being spawned or respawned
  loc,              \* spawnStar's locals x, y, z while its loop runs
  ret,              \* the star values produced by the last spawn of this frame (history)
  hist,             \* per star: the last TrailCap + 1 points projected since its spawn (history)
  painted,          \* per star: what its last updateStar drew, under which width and
                    \* height, and its updateStar calls in the current frame (history)
  age,              \* per star: the number of steps since it was last spawned (history)
  frames,           \* number of draw() calls, counted up to MaxFrames (history)
  respawns,         \* per star: respawns during the first MaxFrames - 1 frames (history)
  z0,               \* per star: the depth it was created with (history, same window)
  resizes,          \* number of viewport changes so far (history)
  timeouts,         \* the host's pending timeouts: ms left to each, oldest first
  sinceResize,      \* ms since the last 'resize' event, counted up to Debounce (history)
  relayouts,        \* debounce callbacks run since the last 'resize' event (history)
  burst,            \* the viewports of the 'resize' events that found a timeout pending,
                    \* after that of the event that found none (history)
  dom0,             \* Responsive: the element children of body and #main at page load (history)
  dom,              \* Responsive: the element children of body and #main
  rsp,              \* Responsive: the instance, its state and the positions it stored
  form,             \* FormModal: submit button, status line, fields, request, modal
  sent              \* FormModal: submissions so far and the last outcome (history)

vars == <<variant, cfg, canvasEl, innerWidth, innerHeight, devicePixelRatio, pc,
          width, height, maxRadius, canvas, transform, listener, resizeTimer,
          rafPending, stars, cur, loc, ret, hist, painted, age, frames, respawns, z0,
          resizes, timeouts, sinceResize, relayouts, burst,
          dom0, dom, rsp, form, sent>>

\* the variables of Responsive and FormModal
pageVars == <<dom0, dom, rsp, form, sent>>

\* the variables of the engines, without the viewport width and the count
\* of its changes
engineVars ==
  <<variant, cfg, canvasEl, innerHeight, devicePixelRatio, pc, width, height,
    maxRadius, canvas, transform, listener, resizeTimer, rafPending, stars, cur,
    loc, ret, hist, painted, age, frames, respawns, z0, timeouts, sinceResize, relayouts,
    burst>>

----------------------------------------------------------------------------
(* Bounds of the model *)

\* viewport changes explored
MaxResizes == 2

\* frames over which the per-star history (respawns, z0) is kept
MaxFrames == 5

\* the longest time, in ms, that passes in one step of the clock
TickMs == 50

\* frames over which a star that is never respawned is followed
MaxSteps == 40

\* depth up to which a star that moves away from the camera is followed
MaxDepth == 300

----------------------------------------------------------------------------
(* Program constants *)

\* Math.random() yields n / RandDen for n in 0 .. RandDen - 1
RandDen == 2

Rand == 0 .. (RandDen - 1)

\* focal length of the perspective projection
FocalLength == 500

\* depth below which a star is respawned
NearThreshold == 1

\* Starfield: this.defaultSpeed
StarfieldSpeed == 5

\* Starfield: fixed capacity of a trail
StarfieldTrail == 8

\* Starfield: depth range added to the width at a respawn
FarRange == 200

\* delay of the resize debounce, in ms
Debounce == 150

\* canvas backing store before any assignment (HTML default)
DefaultCanvas == [width |-> 300, height |-> 150]

NoLoc == [x |-> 0, y |-> 0, z |-> 0]

NoRet == [set |-> FALSE, x |-> 0, y |-> 0, z |-> 0]

\* the object a spawn fills in
NewStar == [x |-> 0, y |-> 0, z |-> 0, radius |-> 0, trail |-> <<>>]

----------------------------------------------------------------------------
(* Arithmetic *)

Abs(n) == IF n < 0 THEN -n ELSE n

Max(a, b) == IF a > b THEN a ELSE b

Min(a, b) == IF a < b THEN a ELSE b

RECURSIVE Gcd(_, _)
Gcd(a, b) == IF b = 0 THEN a ELSE Gcd(b, a % b)

\* the double n / d: a fraction in lowest terms, or Infinity, -Infinity, NaN
Frac(n, d) ==
  IF d = 0 THEN <<(IF n > 0 THEN 1 ELSE IF n < 0 THEN -1 ELSE 0), 0>>
  ELSE LET sn == IF d < 0 THEN -n ELSE n
           sd == Abs(d)
           g  == Gcd(Abs(sn), sd)
       IN  <<sn \div g, sd \div g>>

\* the double is NaN
IsNaN(a) == a = <<0, 0>>

\* a < b on doubles: false when either is NaN
FracLess(a, b) == ~IsNaN(a) /\ ~IsNaN(b) /\ a[1] * b[2] < b[1] * a[2]

\* Math.max(a, b) and Math.min(a, b): NaN when either is NaN
FracMax(a, b) ==
  IF IsNaN(a) \/ IsNaN(b) THEN <<0, 0>> ELSE IF FracLess(a, b) THEN b ELSE a

FracMin(a, b) ==
  IF IsNaN(a) \/ IsNaN(b) THEN <<0, 0>> ELSE IF FracLess(b, a) THEN b ELSE a

\* the double a * (n / d), for integers n >= 0 and d > 0
FracTimes(a, n, d) == IF IsNaN(a) THEN a ELSE Frac(a[1] * n, a[2] * d)

----------------------------------------------------------------------------
(* Configuration read by the constructors *)

\* this.speed
Speed == IF variant = "Starfield" THEN StarfieldSpeed ELSE cfg.defaultSpeed

\* capacity of a trail: this.trailLength, or the literal 8 of Starfield
TrailCap == IF variant = "Starfield" THEN StarfieldTrail ELSE cfg.trailLength

\* window.devicePixelRatio || 1
Dpr == IF devicePixelRatio = 0 THEN 1 ELSE devicePixelRatio

\* maxRadius || Math.max(this.width, this.height), from the given dimensions
DefaultMaxRadius(w, h) == IF cfg.maxRadius # 0 THEN cfg.maxRadius ELSE Max(w, h)

\* the maxRadius a spawn samples with: this.maxRadius in Starstream,
\* Math.max(this.width, this.height) read at the call in Starfield
SpawnRadius == IF variant = "Starfield" THEN Max(width, height) ELSE maxRadius

----------------------------------------------------------------------------
(* Sampling: Math.random() = r / RandDen *)

\* (Math.random() - 0.5) * m
Offset(r, m) == ((2 * r - RandDen) * m) \div (2 * RandDen)

\* Math.random() * w
Depth(r, w) == (r * w) \div RandDen

\* w + Math.random() * 200
FarDepth(r, w) == w + (r * FarRange) \div RandDen

\* Math.random() * 1.5 + 0.5, in eighths
RandomRadius(r) == (12 * r) \div RandDen + 4

----------------------------------------------------------------------------
(* Projection *)

\* c * (500 / z) + extent / 2
Project1(c, z, extent) ==
  IF z = 0 THEN Frac(c, 0)
  ELSE Frac(2 * FocalLength * c + extent * z, 2 * z)

\* the screen point (px, py) of a star under the stored width and height
Project(s, w, h) == [x |-> Project1(s.x, s.z, w), y |-> Project1(s.y, s.z, h)]

\* the loop condition of spawnStar:
\*   Math.sqrt((px - centerX) ** 2 + (py - centerY) ** 2) < this.minRadius
\* With z = 0 the distance is Infinity or NaN and the comparison is false.
InDeadZone(x, y, z, minR) ==
  /\ z # 0
  /\ minR > 0
  /\ FocalLength * FocalLength * (x * x + y * y) < minR * minR * z * z

----------------------------------------------------------------------------
(* Trails *)

\* (mutant) the capacity test written <= : one push too many
updateTrailOffByOne(trail, cap, p) ==
  IF Len(trail) <= cap
  THEN Append(trail, [slot |-> Len(trail) + 1, x |-> p.x, y |-> p.y])
  ELSE Append(Tail(trail), [slot |-> Head(trail).slot, x |-> p.x, y |-> p.y])

\* (mutant) a full trail overwrites its newest point instead of its oldest
updateTrailDropNewest(trail, cap, p) ==
  IF Len(trail) < cap
  THEN Append(trail, [slot |-> Len(trail) + 1, x |-> p.x, y |-> p.y])
  ELSE [trail EXCEPT ![Len(trail)] = [slot |-> @.slot, x |-> p.x, y |-> p.y]]

\* (mutant) a full trail drops its oldest point and pushes a new object
updateTrailAllocating(trail, cap, p) ==
  IF Len(trail) < cap
  THEN Append(trail, [slot |-> Len(trail) + 1, x |-> p.x, y |-> p.y])
  ELSE Append(Tail(trail), [slot |-> trail[Len(trail)].slot + 1, x |-> p.x, y |-> p.y])

\* the trail after updateTrail(s, px, py): push while below the capacity,
\* else shift the oldest point object, overwrite it and push it back.
\* slot names the point object: objects made by push are numbered in order.
updateTrail(trail, cap, p) ==
  IF Len(trail) < cap
  THEN Append(trail, [slot |-> Len(trail) + 1, x |-> p.x, y |-> p.y])
  ELSE Append(Tail(trail), [slot |-> Head(trail).slot, x |-> p.x, y |-> p.y])

\* the coordinates of a trail, oldest first
Points(trail) == [i \in 1 .. Len(trail) |-> [x |-> trail[i].x, y |-> trail[i].y]]

\* (mutant) the star moves by the magnitude of the speed
AdvanceTowards(s, speed) == [s EXCEPT !.z = @ - Abs(speed)]

\* (mutant) the star also drifts sideways as it comes closer
AdvanceDrifting(s, speed) == [s EXCEPT !.z = @ - speed, !.x = @ - speed]

\* s.z -= this.speed
Advance(s, speed) == [s EXCEPT !.z = @ - speed]

\* (mutant) the respawn test written s.z < 0
PassedBehindCamera(s) == s.z < 0

\* (mutant) the respawn test written s.z <= 1
PassedAtThreshold(s) == s.z <= NearThreshold

\* if (s.z < 1): the star passed the camera
Passed(s) == s.z < NearThreshold

\* the rest of updateStar after the respawn test: project, updateTrail
Trace(s, w, h, cap) == [s EXCEPT !.trail = updateTrail(@, cap, Project(s, w, h))]

\* headRadius of updateStar: Math.max(s.radius * k * 0.5, 1) in Starstream,
\* Math.max(s.radius * k * 0.3, 0.5) in Starfield, with k = 500 / s.z and
\* the radius in eighths
HeadRadius(s) ==
  IF variant = "Starfield"
  THEN FracMax(Frac(3 * s.radius * FocalLength, 80 * s.z), <<1, 2>>)
  ELSE FracMax(Frac(s.radius * FocalLength, 16 * s.z), <<1, 1>>)

\* the opacity of the head: Math.min(k / 2, 1) in Starstream; Starfield
\* draws it with the globalAlpha 1.0 that drawTrail leaves
HeadAlpha(s) ==
  IF variant = "Starfield" THEN <<1, 1>>
  ELSE FracMin(Frac(FocalLength, 2 * s.z), <<1, 1>>)

\* drawTrail(s, headRadius): the strokes in the order drawn, each from the
\* newer point p1 to the older point p2 of a consecutive pair, with
\* t = (i + 1) / s.trail.length for the 0-based i of the code
drawTrail(trail, headRadius) ==
  [i \in 1 .. (Len(trail) - 1) |->
     [p1 |-> [x |-> trail[i + 1].x, y |-> trail[i + 1].y],
      p2 |-> [x |-> trail[i].x, y |-> trail[i].y],
      lineWidth |-> FracTimes(headRadius, i, Len(trail)),
      alpha |-> Frac(i, 2 * Len(trail))]]

\* drawHead(px, py, radius, alpha): the circle filled
drawHead(p, radius, alpha) == [x |-> p.x, y |-> p.y, radius |-> radius, alpha |-> alpha]

\* nothing drawn yet for a star
NotPainted ==
  [steps |-> 0, under |-> <<0, 0>>, strokes |-> <<>>,
   head |-> drawHead([x |-> <<0, 1>>, y |-> <<0, 1>>], <<0, 1>>, <<0, 1>>)]

\* a frame starts: no star has been through updateStar in it
Unstepped(ps) == [i \in 1 .. Len(ps) |-> [ps[i] EXCEPT !.steps = 0]]

\* The calls at the end of updateStar for the star s as updateTrail left it,
\* with the local headRadius: drawTrail(s, headRadius) over the given trail
\* and drawHead(px, py, headRadius, alpha).  p: what was drawn for the star
\* before.
Drawn(p, s, trail, headRadius, w, h) ==
  [steps |-> p.steps + 1,
   under |-> <<w, h>>,
   strokes |-> drawTrail(trail, headRadius),
   head |-> drawHead(Project(s, w, h), headRadius, HeadAlpha(s))]

\* (mutant) updateStar draws the trail before it calls updateTrail
RenderBeforeUpdate(p, s0, s1, w, h) ==
  CHOOSE d \in UNION { { Drawn(p, s, t.trail, r, w, h) : r \in {HeadRadius(s)} } :
                        s \in {s1}, t \in {s0} } : TRUE

\* The end of updateStar for a star s0 that has been moved and, if need be,
\* respawned, s1 being the star after updateTrail(s, px, py).  The star and
\* headRadius are evaluated once, as the code evaluates its locals.
Render(p, s0, s1, w, h) ==
  CHOOSE d \in UNION { { Drawn(p, s, s.trail, r, w, h) : r \in {HeadRadius(s)} } :
                        s \in {s1} } : TRUE

\* (mutant) the spawned value carries no trail, so the old trail stays
ReseedKeepTrail(s, x, y, z, radius) ==
  [s EXCEPT !.x = x, !.y = y, !.z = z, !.radius = radius]

\* Object.assign(s, this.spawnStar(...)): x, y, z, radius, trail replaced
Reseed(s, x, y, z, radius) ==
  [x |-> x, y |-> y, z |-> z, radius |-> radius, trail |-> <<>>]

\* Starfield's inline respawn: z, x, y and trail replaced, radius kept
ReseedInline(s, x, y, z) == [s EXCEPT !.x = x, !.y = y, !.z = z, !.trail = <<>>]

\* the last n elements of a sequence
LastN(q, n) == IF Len(q) <= n THEN q ELSE SubSeq(q, Len(q) - n + 1, Len(q))

\* the record of projected points after one more point p
Record(h, cap, p) == LastN(Append(h, p), cap + 1)

\* for (let s of this.stars) this.updateStar(s), from star i on, up to the
\* first star that has to be respawned (stop = its index, 0 when the loop
\* ran to its end).  ss: the stars; hs, as: the history kept per star.
\* ps: what was drawn for each star.
RECURSIVE UpdateFrom(_, _, _, _, _, _, _, _, _)
UpdateFrom(ss, hs, as, ps, i, speed, w, h, cap) ==
  IF i > Len(ss)
  THEN [stars |-> ss, hist |-> hs, age |-> as, painted |-> ps, stop |-> 0]
  ELSE LET s == Advance(ss[i], speed) IN
       IF Passed(s)
       THEN [stars |-> [ss EXCEPT ![i] = s], hist |-> hs, age |-> as,
             painted |-> ps, stop |-> i]
       ELSE UpdateFrom([ss EXCEPT ![i] = Trace(s, w, h, cap)],
                       [hs EXCEPT ![i] = Record(@, cap, Project(s, w, h))],
                       [as EXCEPT ![i] = @ + 1],
                       [ps EXCEPT ![i] = Render(@, s, Trace(s, w, h, cap), w, h)],
                       i + 1, speed, w, h, cap)

----------------------------------------------------------------------------
(* Inputs: the configurations and environments explored *)

\* config objects passed to new Starstream(canvasId, config); maxRadius 0
\* stands for the default null, starRadius is in eighths
StarstreamConfigs ==
  { [numStars |-> 2, defaultSpeed |-> 20, minRadius |-> 100, maxRadius |-> 0,
     trailLength |-> 2, starRadius |-> 8],
    [numStars |-> 1, defaultSpeed |-> 10, minRadius |-> 0, maxRadius |-> 0,
     trailLength |-> 15, starRadius |-> 8],
    [numStars |-> 1, defaultSpeed |-> 2, minRadius |-> 600, maxRadius |-> 0,
     trailLength |-> 4, starRadius |-> 8],
    [numStars |-> 1, defaultSpeed |-> 7, minRadius |-> 300, maxRadius |-> 20,
     trailLength |-> 1, starRadius |-> 12],
    [numStars |-> 0, defaultSpeed |-> 7, minRadius |-> 100, maxRadius |-> 0,
     trailLength |-> 15, starRadius |-> 8],
    [numStars |-> 1, defaultSpeed |-> 19, minRadius |-> 0, maxRadius |-> 0,
     trailLength |-> 2, starRadius |-> 8] }

\* config objects with a speed that is not positive
MalformedConfigs ==
  { [numStars |-> 1, defaultSpeed |-> 0, minRadius |-> 100, maxRadius |-> 0,
     trailLength |-> 2, starRadius |-> 8],
    [numStars |-> 1, defaultSpeed |-> -100, minRadius |-> 0, maxRadius |-> 0,
     trailLength |-> 15, starRadius |-> 8] }

\* new Starfield(canvasId, numStars): only numStars is an argument, the
\* other fields repeat the literals of the class
StarfieldConfigs ==
  { [numStars |-> n, defaultSpeed |-> StarfieldSpeed, minRadius |-> 0,
     maxRadius |-> 0, trailLength |-> StarfieldTrail, starRadius |-> 0] :
    n \in {0, 1} }

\* window.innerWidth, window.innerHeight
Viewports == { <<40, 24>>, <<80, 40>> }

\* the window at page load: viewport and devicePixelRatio
Windows == { [vp |-> <<40, 24>>, dpr |-> 0], [vp |-> <<80, 40>>, dpr |-> 2] }

\* the windows a configuration is started in (several stars: the first only)
WindowsOf(c) == IF c.numStars > 1 THEN { w \in Windows : w.dpr = 0 } ELSE Windows

\* the viewport changes explored for a configuration: MaxResizes for an
\* engine without stars and for a well-formed Starstream with one star, one
\* change for the others
ResizesOf(c) ==
  IF c.numStars = 0 \/ (c \in StarstreamConfigs /\ c.numStars = 1)
  THEN MaxResizes ELSE 1

Zeros(n) == [i \in 1 .. n |-> 0]

----------------------------------------------------------------------------
(* The page outside the canvas, before Responsive and FormModal are made *)

\* a page without nav and footer: body holds #main only
NoDom == [body |-> <<"main">>, main |-> <<>>]

\* Responsive not constructed
NoResponsive ==
  [state |-> "new", originalNavParent |-> "none", originalFooterParent |-> "none",
   navNextSibling |-> "none", footerNextSibling |-> "none"]

\* label of the submit button in the page, and the one shown while sending
LabelSend == "Send Message"

LabelSending == "Sending..."

\* the form as loaded, on a page where the element named by missing is
\* absent: no listener yet, button enabled, no field filled
FormOn(missing) ==
  [missing |-> missing, thrown |-> FALSE, listening |-> FALSE, disabled |-> FALSE,
   label |-> LabelSend, status |-> "", fields |-> {}, request |-> "none",
   active |-> FALSE]

\* the form as loaded on a page that has the modal, its close button and a form
FormAtLoad == FormOn("none")

\* no submission yet
NoneSent == [count |-> 0, outcome |-> "none"]

----------------------------------------------------------------------------
(* State after page load, before the constructor runs *)

Init ==
  /\ variant \in {"Starfield", "Starstream"}
  /\ cfg \in (IF variant = "Starfield" THEN StarfieldConfigs
              ELSE StarstreamConfigs \cup MalformedConfigs)
  /\ canvasEl \in {"missing", "noctx", "ok"}
  /\ \E w \in WindowsOf(cfg) : /\ innerWidth = w.vp[1]
                              /\ innerHeight = w.vp[2]
                              /\ devicePixelRatio = w.dpr
  /\ pc = "new"
  /\ width = 0
  /\ height = 0
  /\ maxRadius = 0
  /\ canvas = DefaultCanvas
  /\ transform = 0
  /\ listener = FALSE
  /\ resizeTimer = FALSE
  /\ rafPending = FALSE
  /\ stars = <<>>
  /\ cur = 0
  /\ loc = NoLoc
  /\ ret = NoRet
  /\ hist = <<>>
  /\ painted = <<>>
  /\ age = <<>>
  /\ frames = 0
  /\ respawns = <<>>
  /\ z0 = <<>>
  /\ resizes = 0
  /\ timeouts = <<>>
  /\ sinceResize = 0
  /\ relayouts = 0
  /\ burst = <<>>
  /\ dom0 = NoDom
  /\ dom = NoDom
  /\ rsp = NoResponsive
  /\ form = FormAtLoad
  /\ sent = NoneSent

----------------------------------------------------------------------------
(* draw(): the loop over the stars *)

\* (mutant) draw() calls requestAnimationFrame before its loop
ContinueScheduledFirst(ss, hs, as, ps, i, fr, rs, zs, w, h) ==
  LET r == UpdateFrom(ss, hs, as, ps, i, Speed, w, h, TrailCap) IN
  /\ stars' = r.stars
  /\ hist' = r.hist
  /\ painted' = r.painted
  /\ age' = r.age
  /\ cur' = r.stop
  /\ pc' = IF r.stop = 0 THEN "idle" ELSE "respawn"
  /\ rafPending' = TRUE
  /\ frames' = fr
  /\ respawns' = IF fr >= MaxFrames THEN Zeros(Len(ss)) ELSE rs
  /\ z0' = IF fr >= MaxFrames THEN Zeros(Len(ss)) ELSE zs

\* The loop of draw() from star i on, with fr draw() calls started so far.
\* It runs to the end of the frame, where requestAnimationFrame(this.draw)
\* is called, or stops inside updateStar at a star that needs new samples.
Continue(ss, hs, as, ps, i, fr, rs, zs, w, h) ==
  LET r == UpdateFrom(ss, hs, as, ps, i, Speed, w, h, TrailCap) IN
  /\ stars' = r.stars
  /\ hist' = r.hist
  /\ painted' = r.painted
  /\ age' = r.age
  /\ cur' = r.stop
  /\ pc' = IF r.stop = 0 THEN "idle" ELSE "respawn"
  /\ rafPending' = (r.stop = 0)
  /\ frames' = fr
  /\ respawns' = IF fr >= MaxFrames THEN Zeros(Len(ss)) ELSE rs
  /\ z0' = IF fr >= MaxFrames THEN Zeros(Len(ss)) ELSE zs

\* (mutant) the loop of initStars written with i <= this.numStars
PushedOnceMore(s) ==
  LET ss == Append(stars, s)
      hs == Append(hist, <<>>)
      as == Append(age, 0)
      ps == Append(painted, NotPainted)
      rs == Append(respawns, 0)
      zs == Append(z0, s.z)
  IN  IF Len(ss) <= cfg.numStars
      THEN /\ stars' = ss
           /\ hist' = hs
           /\ painted' = ps
           /\ age' = as
           /\ respawns' = rs
           /\ z0' = zs
           /\ cur' = cur + 1
           /\ UNCHANGED <<pc, rafPending, frames>>
      ELSE Continue(ss, hs, as, ps, 1, Min(frames + 1, MaxFrames), rs, zs, width, height)

\* initStars pushed star s: the loop goes on, or the constructor calls draw()
Pushed(s) ==
  LET ss == Append(stars, s)
      hs == Append(hist, <<>>)
      as == Append(age, 0)
      ps == Append(painted, NotPainted)
      rs == Append(respawns, 0)
      zs == Append(z0, s.z)
  IN  IF Len(ss) < cfg.numStars
      THEN /\ stars' = ss
           /\ hist' = hs
           /\ painted' = ps
           /\ age' = as
           /\ respawns' = rs
           /\ z0' = zs
           /\ cur' = cur + 1
           /\ UNCHANGED <<pc, rafPending, frames>>
      ELSE Continue(ss, hs, as, ps, 1, Min(frames + 1, MaxFrames), rs, zs, width, height)

\* (mutant) the frame is abandoned after the respawn: nothing is requested
RespawnedStopped(s) ==
  /\ stars' = [stars EXCEPT ![cur] = Trace(s, width, height, TrailCap)]
  /\ hist' = [hist EXCEPT ![cur] = <<Project(s, width, height)>>]
  /\ painted' = [painted EXCEPT
                   ![cur] = Render(@, s, Trace(s, width, height, TrailCap), width, height)]
  /\ age' = [age EXCEPT ![cur] = 1]
  /\ pc' = "idle"
  /\ rafPending' = FALSE
  /\ UNCHANGED <<cur, frames, respawns, z0>>

\* updateStar goes on with the respawned star s, then draw() with the next
Respawned(s) ==
  Continue([stars EXCEPT ![cur] = Trace(s, width, height, TrailCap)],
           [hist EXCEPT ![cur] = <<Project(s, width, height)>>],
           [age EXCEPT ![cur] = 1],
           [painted EXCEPT
              ![cur] = Render(@, s, Trace(s, width, height, TrailCap), width, height)],
           cur + 1, frames,
           IF frames < MaxFrames THEN [respawns EXCEPT ![cur] = @ + 1] ELSE respawns,
           z0, width, height)

----------------------------------------------------------------------------
(* The constructors *)

\* (mutant) a missing canvas is ignored and the frame loop is started
ConstructMissingSilent ==
  /\ pc = "new"
  /\ canvasEl = "missing"
  /\ pc' = "idle"
  /\ rafPending' = TRUE
  /\ UNCHANGED pageVars
  /\ UNCHANGED <<variant, cfg, canvasEl, innerWidth, innerHeight, devicePixelRatio,
                 width, height, maxRadius, canvas, transform, listener,
                 resizeTimer, stars, cur, loc, ret, hist, painted, age, frames,
                 respawns, z0, resizes, timeouts,
                 sinceResize, relayouts, burst>>

\* document.getElementById gives null: throw before anything else
ConstructMissing ==
  /\ pc = "new"
  /\ canvasEl = "missing"
  /\ pc' = "thrown"
  /\ UNCHANGED pageVars
  /\ UNCHANGED <<variant, cfg, canvasEl, innerWidth, innerHeight, devicePixelRatio,
                 width, height, maxRadius, canvas, transform, listener,
                 resizeTimer, rafPending, stars, cur, loc, ret, hist, painted, age,
                 frames, respawns, z0, resizes, timeouts,
                 sinceResize, relayouts, burst>>

\* (mutant) initCanvas registers the resize listener before it calls
\* this.ctx.setTransform, which throws
ConstructNoContextListening ==
  /\ pc = "new"
  /\ canvasEl = "noctx"
  /\ width' = innerWidth
  /\ height' = innerHeight
  /\ maxRadius' = (IF variant = "Starfield" THEN 0
                   ELSE DefaultMaxRadius(innerWidth, innerHeight))
  /\ canvas' = [width |-> innerWidth * Dpr, height |-> innerHeight * Dpr]
  /\ listener' = TRUE
  /\ pc' = "thrown"
  /\ UNCHANGED pageVars
  /\ UNCHANGED <<variant, cfg, canvasEl, innerWidth, innerHeight, devicePixelRatio,
                 transform, resizeTimer, rafPending, stars, cur, loc,
                 ret, hist, painted, age, frames, respawns, z0, resizes, timeouts,
                 sinceResize, relayouts, burst>>

\* getContext('2d') gives null: the fields are set, initCanvas sizes the
\* canvas and this.ctx.setTransform throws a TypeError
ConstructNoContext ==
  /\ pc = "new"
  /\ canvasEl = "noctx"
  /\ width' = innerWidth
  /\ height' = innerHeight
  /\ maxRadius' = (IF variant = "Starfield" THEN 0
                   ELSE DefaultMaxRadius(innerWidth, innerHeight))
  /\ canvas' = [width |-> innerWidth * Dpr, height |-> innerHeight * Dpr]
  /\ pc' = "thrown"
  /\ UNCHANGED pageVars
  /\ UNCHANGED <<variant, cfg, canvasEl, innerWidth, innerHeight, devicePixelRatio,
                 transform, listener, resizeTimer, rafPending, stars, cur, loc,
                 ret, hist, painted, age, frames, respawns, z0, resizes, timeouts,
                 sinceResize, relayouts, burst>>

\* the constructor up to the first sample of initStars, or, with no star to
\* make, through the first draw()
Construct ==
  /\ pc = "new"
  /\ canvasEl = "ok"
  /\ width' = innerWidth
  /\ height' = innerHeight
  /\ maxRadius' = (IF variant = "Starfield" THEN 0
                   ELSE DefaultMaxRadius(innerWidth, innerHeight))
  /\ canvas' = [width |-> innerWidth * Dpr, height |-> innerHeight * Dpr]
  /\ transform' = Dpr
  /\ listener' = TRUE
  /\ IF cfg.numStars > 0
     THEN /\ pc' = "initStars"
          /\ cur' = 1
          /\ UNCHANGED <<rafPending, stars, hist, painted, age, frames, respawns, z0>>
     ELSE Continue(<<>>, <<>>, <<>>, <<>>, 1, Min(frames + 1, MaxFrames), <<>>, <<>>,
                   innerWidth, innerHeight)
  /\ UNCHANGED pageVars
  /\ UNCHANGED <<variant, cfg, canvasEl, innerWidth, innerHeight, devicePixelRatio,
                 resizeTimer, loc, ret, resizes, timeouts,
                 sinceResize, relayouts, burst>>

----------------------------------------------------------------------------
(* Spawning *)

\* The body and the test of the do-while loop of Starstream.spawnStar for
\* the sample (x, y, z): a sample in the dead zone leaves the loop running,
\* any other is returned to initStars or to updateStar, which go on.
SpawnWith(x, y, z) ==
  /\ variant = "Starstream"
  /\ pc \in {"initStars", "respawn"}
  /\ IF InDeadZone(x, y, z, cfg.minRadius)
     THEN /\ loc' = [x |-> x, y |-> y, z |-> z]
          /\ UNCHANGED <<pc, rafPending, stars, cur, ret, hist, painted, age, frames,
                         respawns, z0>>
     ELSE /\ loc' = NoLoc
          /\ ret' = [set |-> TRUE, x |-> x, y |-> y, z |-> z]
          /\ IF pc = "initStars"
             THEN Pushed(Reseed(NewStar, x, y, z, cfg.starRadius))
             ELSE Respawned(Reseed(stars[cur], x, y, z, cfg.starRadius))
  /\ UNCHANGED pageVars
  /\ UNCHANGED <<variant, cfg, canvasEl, innerWidth, innerHeight, devicePixelRatio,
                 width, height, maxRadius, canvas, transform, listener,
                 resizeTimer, resizes, timeouts,
                 sinceResize, relayouts, burst>>

\* (mutant) x, y, z drawn once before the loop instead of in every pass
SpawnSampleHoisted(rx, ry, rz) ==
  IF loc # NoLoc
  THEN SpawnWith(loc.x, loc.y, loc.z)
  ELSE SpawnWith(Offset(rx, maxRadius), Offset(ry, maxRadius), Depth(rz, width))

\* One pass of the do-while loop of Starstream.spawnStar(this.maxRadius)
\* with the three Math.random() values rx, ry, rz (in RandDen-ths)
SpawnSample(rx, ry, rz) ==
  SpawnWith(Offset(rx, maxRadius), Offset(ry, maxRadius), Depth(rz, width))

\* One pass of the loop of Starfield.initStars: x, y, z and radius drawn
InitStar(rx, ry, rz, rr) ==
  /\ variant = "Starfield"
  /\ pc = "initStars"
  /\ LET x == Offset(rx, SpawnRadius)
         y == Offset(ry, SpawnRadius)
         z == Depth(rz, width)
     IN  /\ ret' = [set |-> TRUE, x |-> x, y |-> y, z |-> z]
         /\ Pushed(Reseed(NewStar, x, y, z, RandomRadius(rr)))
         /\ UNCHANGED loc
  /\ UNCHANGED pageVars
  /\ UNCHANGED <<variant, cfg, canvasEl, innerWidth, innerHeight, devicePixelRatio,
                 width, height, maxRadius, canvas, transform, listener,
                 resizeTimer, resizes, timeouts,
                 sinceResize, relayouts, burst>>

\* The respawn written inline in Starfield.updateStar: z, x, y drawn
InlineRespawn(rz, rx, ry) ==
  /\ variant = "Starfield"
  /\ pc = "respawn"
  /\ LET x == Offset(rx, SpawnRadius)
         y == Offset(ry, SpawnRadius)
         z == FarDepth(rz, width)
     IN  /\ ret' = [set |-> TRUE, x |-> x, y |-> y, z |-> z]
         /\ Respawned(ReseedInline(stars[cur], x, y, z))
         /\ UNCHANGED loc
  /\ UNCHANGED pageVars
  /\ UNCHANGED <<variant, cfg, canvasEl, innerWidth, innerHeight, devicePixelRatio,
                 width, height, maxRadius, canvas, transform, listener,
                 resizeTimer, resizes, timeouts,
                 sinceResize, relayouts, burst>>

----------------------------------------------------------------------------
(* Callbacks run by the event loop, one at a time *)

\* the frame callback: draw()
Draw ==
  /\ pc = "idle"
  /\ rafPending
  /\ \A i \in 1 .. Len(stars) : age[i] < MaxSteps /\ stars[i].z <= MaxDepth
  /\ Continue(stars, hist, age, Unstepped(painted), 1, Min(frames + 1, MaxFrames),
              respawns, z0, width, height)
  /\ ret' = NoRet
  /\ UNCHANGED pageVars
  /\ UNCHANGED <<variant, cfg, canvasEl, innerWidth, innerHeight, devicePixelRatio,
                 width, height, maxRadius, canvas, transform, listener,
                 resizeTimer, loc, resizes, timeouts,
                 sinceResize, relayouts, burst>>

\* (mutant) the listener without its clearTimeout
ClearedNothing == timeouts

\* clearTimeout(resizeTimer): the timeout last set is cancelled if pending
Cleared == IF resizeTimer THEN SubSeq(timeouts, 1, Len(timeouts) - 1) ELSE timeouts

\* (mutant) the listener sets a timeout only when none is pending
ListenThrottled(ts) == IF resizeTimer THEN timeouts ELSE Append(ts, Debounce)

\* the listener body: clearTimeout(resizeTimer), then setTimeout(..., 150)
\* on the timeouts ts left by the clearTimeout
Listen(ts) == Append(ts, Debounce)

\* the viewport becomes vp and the window fires 'resize': the listener, if
\* registered, clears the pending timeout and sets a new one
ResizeEvent(vp) ==
  /\ pc \in {"idle", "thrown"}
  /\ resizes < ResizesOf(cfg)
  /\ resizes' = resizes + 1
  /\ innerWidth' = vp[1]
  /\ innerHeight' = vp[2]
  /\ resizeTimer' = listener
  /\ timeouts' = IF listener THEN Listen(Cleared) ELSE timeouts
  /\ sinceResize' = 0
  /\ relayouts' = 0
  /\ burst' = IF timeouts # <<>> THEN Append(burst, vp) ELSE <<vp>>
  /\ UNCHANGED pageVars
  /\ UNCHANGED <<variant, cfg, canvasEl, devicePixelRatio, pc, width, height,
                 maxRadius, canvas, transform, listener, rafPending, stars, cur,
                 loc, ret, hist, painted, age, frames, respawns, z0>>

\* (mutant) the debounce callback also empties the trails
ResizeTimeoutClearing ==
  /\ pc = "idle"
  /\ timeouts # <<>>
  /\ Head(timeouts) = 0
  /\ timeouts' = Tail(timeouts)
  /\ resizeTimer' = (resizeTimer /\ Len(timeouts) > 1)
  /\ relayouts' = Min(relayouts + 1, 2)
  /\ width' = innerWidth
  /\ height' = innerHeight
  /\ canvas' = [width |-> innerWidth * transform, height |-> innerHeight * transform]
  /\ stars' = [i \in 1 .. Len(stars) |-> [stars[i] EXCEPT !.trail = <<>>]]
  /\ hist' = [i \in 1 .. Len(stars) |-> <<>>]
  /\ age' = [i \in 1 .. Len(stars) |-> 0]
  /\ UNCHANGED pageVars
  /\ UNCHANGED <<variant, cfg, canvasEl, innerWidth, innerHeight, devicePixelRatio,
                 pc, maxRadius, transform, listener, rafPending, cur, loc,
                 ret, painted, frames, respawns, z0, resizes, sinceResize, burst>>

\* (mutant) the debounce callback reads the width only
ResizeTimeoutWidthOnly ==
  /\ pc = "idle"
  /\ timeouts # <<>>
  /\ Head(timeouts) = 0
  /\ timeouts' = Tail(timeouts)
  /\ resizeTimer' = (resizeTimer /\ Len(timeouts) > 1)
  /\ relayouts' = Min(relayouts + 1, 2)
  /\ width' = innerWidth
  /\ canvas' = [width |-> innerWidth * transform, height |-> height * transform]
  /\ UNCHANGED pageVars
  /\ UNCHANGED <<variant, cfg, canvasEl, innerWidth, innerHeight, devicePixelRatio,
                 pc, height, maxRadius, transform, listener, rafPending, stars, cur,
                 loc, ret, hist, painted, age, frames, respawns, z0, resizes,
                 sinceResize, burst>>

\* the oldest pending timeout is due: the callback of setTimeout(..., 150)
ResizeTimeout ==
  /\ pc = "idle"
  /\ timeouts # <<>>
  /\ Head(timeouts) = 0
  /\ timeouts' = Tail(timeouts)
  /\ resizeTimer' = (resizeTimer /\ Len(timeouts) > 1)
  /\ relayouts' = Min(relayouts + 1, 2)
  /\ width' = innerWidth
  /\ height' = innerHeight
  /\ canvas' = [width |-> innerWidth * transform, height |-> innerHeight * transform]
  /\ UNCHANGED pageVars
  /\ UNCHANGED <<variant, cfg, canvasEl, innerWidth, innerHeight, devicePixelRatio,
                 pc, maxRadius, transform, listener, rafPending, stars, cur, loc,
                 ret, hist, painted, age, frames, respawns, z0, resizes, sinceResize, burst>>

\* the ms that pass in one step of the clock: up to the next due timeout
Elapse == IF timeouts = <<>> THEN TickMs ELSE Min(TickMs, Head(timeouts))

\* Time passes between callbacks, never past a timeout that is due.  The
\* clock is followed for Debounce ms after each 'resize' event.
Tick ==
  /\ pc \in {"idle", "thrown"}
  /\ resizes > 0
  /\ sinceResize < Debounce
  /\ \A i \in 1 .. Len(timeouts) : timeouts[i] > 0
  /\ timeouts' = [i \in 1 .. Len(timeouts) |-> timeouts[i] - Elapse]
  /\ sinceResize' = Min(sinceResize + Elapse, Debounce)
  /\ UNCHANGED pageVars
  /\ UNCHANGED <<variant, cfg, canvasEl, innerWidth, innerHeight, devicePixelRatio,
                 pc, width, height, maxRadius, canvas, transform, listener,
                 resizeTimer, rafPending, stars, cur, loc, ret, hist, painted, age, frames,
                 respawns, z0, resizes, relayouts, burst>>

----------------------------------------------------------------------------

Next ==
  \/ ConstructMissing
  \/ ConstructNoContext
  \/ Construct
  \/ \E rx \in Rand, ry \in Rand, rz \in Rand : SpawnSample(rx, ry, rz)
  \/ \E rx \in Rand, ry \in Rand, rz \in Rand, rr \in Rand : InitStar(rx, ry, rz, rr)
  \/ \E rz \in Rand, rx \in Rand, ry \in Rand : InlineRespawn(rz, rx, ry)
  \/ Draw
  \/ \E vp \in Viewports : ResizeEvent(vp)
  \/ ResizeTimeout
  \/ Tick

Spec == Init /\ [][Next]_vars

----------------------------------------------------------------------------
(* The Starstream class alone, with at most one star, in either window,   *)
(* for the spawn loop and the frame loop                                   *)

InitSpawn ==
  Init /\ variant = "Starstream" /\ cfg \in StarstreamConfigs /\ cfg.numStars <= 1

\* the steps of Next that an engine of class Starstream takes in a window
\* that is not resized: the constructor, the spawn loop and the frames
NextStarstream ==
  \/ ConstructMissing
  \/ ConstructNoContext
  \/ Construct
  \/ \E rx \in Rand, ry \in Rand, rz \in Rand : SpawnSample(rx, ry, rz)
  \/ Draw

\* The event loop keeps running callbacks and a running loop keeps
\* iterating, whatever Math.random() returns.
SpecRun == InitSpawn /\ [][NextStarstream]_vars /\ WF_vars(NextStarstream)

\* the projected distance of (x, y, z) from the screen centre is >= m, as
\* doubles compare: with z = 0 the distance is Infinity when x and y are
\* both non-zero and NaN otherwise, and NaN >= m is false
DistanceAtLeast(x, y, z, m) ==
  IF z = 0 THEN x # 0 /\ y # 0
  ELSE m <= 0 \/ FocalLength * FocalLength * (x * x + y * y) >= m * m * z * z

\* a pass of the loop of Starstream.spawnStar whose sample projects to a
\* distance >= minRadius from the centre
SpawnOutside ==
  \E rx \in Rand, ry \in Rand, rz \in Rand :
    /\ DistanceAtLeast(Offset(rx, maxRadius), Offset(ry, maxRadius),
                       Depth(rz, width), cfg.minRadius)
    /\ SpawnSample(rx, ry, rz)

\* Fair sampling: the constructor and a frame that waits for samples go on,
\* and a spawn that keeps sampling eventually draws each sample that
\* Math.random() can produce, so also one outside the dead zone if any is.
FairSampling == WF_vars(Construct \/ SpawnOutside)

SpecFair == InitSpawn /\ [][NextStarstream]_vars /\ FairSampling

\* Fair sampling, and the host runs a frame callback that stays pending
FairFrames == WF_vars(Construct \/ SpawnOutside \/ Draw)

SpecLoop == InitSpawn /\ [][NextStarstream]_vars /\ FairFrames

----------------------------------------------------------------------------
(* Responsive: nav and footer moved into #main below the breakpoint.       *)
(* The document is the list of element children of body, which holds       *)
(* #main, and the list of element children of #main; text nodes are left   *)
(* out.                                                                    *)

\* breakpoint passed by main.js, also the default
Breakpoint == 1024

\* window.innerWidth for the layout: below, at and above the breakpoint
ResponsiveWidths == {800, 1024, 1280}

\* the pages explored: element children of body and of #main
Layouts ==
  { [body |-> <<"a", "nav", "b", "footer", "main">>, main |-> <<"c">>],
    [body |-> <<"nav", "footer", "main">>, main |-> <<"c">>],
    [body |-> <<"main", "a", "nav", "footer">>, main |-> <<"c", "d">>],
    [body |-> <<"main">>, main |-> <<"c", "nav", "d", "footer", "e">>],
    [body |-> <<"footer", "nav", "main">>, main |-> <<>>],
    [body |-> <<"main">>, main |-> <<"nav", "c", "footer">>],
    [body |-> <<"main">>, main |-> <<"a", "nav", "footer", "b">>],
    [body |-> <<"a", "nav", "main">>, main |-> <<"c">>] }

\* the engine of the page not constructed: no canvas element
EngineAtLoad ==
  /\ variant = "Starfield"
  /\ cfg = [numStars |-> 0, defaultSpeed |-> StarfieldSpeed, minRadius |-> 0,
            maxRadius |-> 0, trailLength |-> StarfieldTrail, starRadius |-> 0]
  /\ canvasEl = "missing"
  /\ innerHeight = 24
  /\ devicePixelRatio = 0
  /\ pc = "new"
  /\ width = 0
  /\ height = 0
  /\ maxRadius = 0
  /\ canvas = DefaultCanvas
  /\ transform = 0
  /\ listener = FALSE
  /\ resizeTimer = FALSE
  /\ rafPending = FALSE
  /\ stars = <<>>
  /\ cur = 0
  /\ loc = NoLoc
  /\ ret = NoRet
  /\ hist = <<>>
  /\ painted = <<>>
  /\ age = <<>>
  /\ frames = 0
  /\ respawns = <<>>
  /\ z0 = <<>>
  /\ resizes = 0
  /\ timeouts = <<>>
  /\ sinceResize = 0
  /\ relayouts = 0
  /\ burst = <<>>

Has(q, e) == \E i \in 1 .. Len(q) : q[i] = e

IndexOf(q, e) == CHOOSE i \in 1 .. Len(q) : q[i] = e

Without(q, e) == SelectSeq(q, LAMBDA x : x # e)

\* document.querySelector finds the element
Found(d, e) == Has(d.body, e) \/ Has(d.main, e)

\* e.parentNode
parentNode(d, e) ==
  IF Has(d.body, e) THEN "body" ELSE IF Has(d.main, e) THEN "main" ELSE "none"

\* e.nextElementSibling
nextElementSibling(d, e) ==
  LET q == d[parentNode(d, e)]
      i == IndexOf(q, e)
  IN  IF i < Len(q) THEN q[i + 1] ELSE "none"

\* parent.firstChild and parent.lastChild
firstChild(d, parent) == IF d[parent] = <<>> THEN "none" ELSE d[parent][1]

lastChild(d, parent) == IF d[parent] = <<>> THEN "none" ELSE d[parent][Len(d[parent])]

\* the document with e taken out of its parent
Detach(d, e) == [body |-> Without(d.body, e), main |-> Without(d.main, e)]

\* parent.appendChild(e): e leaves its place and becomes the last child
appendChild(d, parent, e) == [Detach(d, e) EXCEPT ![parent] = Append(@, e)]

\* parent.insertBefore(e, ref): e leaves its place and is put before ref,
\* a child of parent; with ref null it is appended
insertBefore(d, parent, e, ref) ==
  IF ref = "none" THEN appendChild(d, parent, e)
  ELSE LET q == Detach(d, e)[parent]
           i == IndexOf(q, ref)
       IN  [Detach(d, e) EXCEPT
              ![parent] = SubSeq(q, 1, i - 1) \o <<e>> \o SubSeq(q, i, Len(q))]

\* the restore branch for one element: before its stored sibling if that is
\* still a child of the original parent, else at the end of that parent
Restore(d, e, parent, sibling) ==
  IF parent = "none" THEN d
  ELSE IF sibling # "none" /\ parentNode(d, sibling) = parent
       THEN insertBefore(d, parent, e, sibling)
       ELSE appendChild(d, parent, e)

\* (mutant) below the breakpoint only the nav is moved
repositionElementsNavOnly(d, r, w) ==
  IF w < Breakpoint
  THEN IF firstChild(d, "main") # "nav"
       THEN insertBefore(d, "main", "nav", firstChild(d, "main"))
       ELSE d
  ELSE Restore(Restore(d, "nav", r.originalNavParent, r.navNextSibling),
               "footer", r.originalFooterParent, r.footerNextSibling)

\* repositionElements() of instance r with window.innerWidth = w
repositionElements(d, r, w) ==
  IF w < Breakpoint
  THEN LET d1 == IF firstChild(d, "main") # "nav"
                 THEN insertBefore(d, "main", "nav", firstChild(d, "main"))
                 ELSE d
       IN  IF lastChild(d1, "main") # "footer"
           THEN appendChild(d1, "main", "footer")
           ELSE d1
  ELSE Restore(Restore(d, "nav", r.originalNavParent, r.navNextSibling),
               "footer", r.originalFooterParent, r.footerNextSibling)

\* the positions the constructor stores
Stored(d) ==
  [state |-> "ready",
   originalNavParent |-> parentNode(d, "nav"),
   originalFooterParent |-> parentNode(d, "footer"),
   navNextSibling |-> nextElementSibling(d, "nav"),
   footerNextSibling |-> nextElementSibling(d, "footer")]

InitResponsive ==
  /\ EngineAtLoad
  /\ innerWidth \in ResponsiveWidths
  /\ dom0 \in Layouts
  /\ dom = dom0
  /\ rsp = NoResponsive
  /\ form = FormAtLoad
  /\ sent = NoneSent

\* new Responsive({...}): warn and return when an element is missing, else
\* store the positions, reposition once and listen to 'resize'
ResponsiveConstruct ==
  /\ rsp.state = "new"
  /\ IF Found(dom, "nav") /\ Found(dom, "footer") /\ Found(dom, "main")
     THEN /\ rsp' = Stored(dom)
          /\ dom' = repositionElements(dom, Stored(dom), innerWidth)
     ELSE /\ rsp' = [rsp EXCEPT !.state = "absent"]
          /\ dom' = dom
  /\ UNCHANGED <<innerWidth, resizes, engineVars, dom0, form, sent>>

\* the viewport width becomes w and the window fires 'resize': the listener,
\* if registered, repositions at once
ResponsiveResize(w) ==
  /\ resizes < MaxResizes
  /\ resizes' = resizes + 1
  /\ innerWidth' = w
  /\ dom' = IF rsp.state = "ready" THEN repositionElements(dom, rsp, w) ELSE dom
  /\ UNCHANGED <<engineVars, dom0, rsp, form, sent>>

NextResponsive ==
  \/ ResponsiveConstruct
  \/ \E w \in ResponsiveWidths : ResponsiveResize(w)

SpecResponsive == InitResponsive /\ [][NextResponsive]_vars

----------------------------------------------------------------------------
(* FormModal: the contact form sent with fetch()                           *)

\* submissions explored
MaxSubmits == 2

\* how a request settles: response.ok, a response that is not ok, fetch rejects
Outcomes == {"ok", "notok", "error"}

\* the status line written for an outcome (the leading symbol left out)
StatusText(o) ==
  IF o = "ok" THEN "Message sent successfully!"
  ELSE IF o = "notok" THEN "Failed to send message. Please try again."
  ELSE "Network error. Check your connection."

\* the fields of the form
FormFields == {"name", "email", "message"}

\* what the page may lack: the modal, the close button, the form
Missing == {"none", "modal", "close", "form"}

InitForm ==
  /\ EngineAtLoad
  /\ innerWidth = 1280
  /\ dom0 = NoDom
  /\ dom = NoDom
  /\ rsp = NoResponsive
  /\ form \in {FormOn(m) : m \in Missing}
  /\ sent = NoneSent

\* new FormModal({...}): throws when the modal, the close button or the
\* form is not found, else attaches the click and submit listeners
FormConstruct ==
  /\ ~form.listening /\ ~form.thrown
  /\ form' = IF form.missing = "none" THEN [form EXCEPT !.listening = TRUE]
             ELSE [form EXCEPT !.thrown = TRUE]
  /\ UNCHANGED <<innerWidth, resizes, engineVars, dom0, dom, rsp, sent>>

\* click on an open button
OpenModal ==
  /\ form.listening
  /\ form' = [form EXCEPT !.active = TRUE]
  /\ UNCHANGED <<innerWidth, resizes, engineVars, dom0, dom, rsp, sent>>

\* click on the close button or on the modal outside its content
CloseModal ==
  /\ form.listening
  /\ form' = [form EXCEPT !.active = FALSE]
  /\ UNCHANGED <<innerWidth, resizes, engineVars, dom0, dom, rsp, sent>>

\* the user types into field f
EditField(f) ==
  /\ form.missing # "form"
  /\ form' = [form EXCEPT !.fields = @ \cup {f}]
  /\ UNCHANGED <<innerWidth, resizes, engineVars, dom0, dom, rsp, sent>>

\* The submit listener up to its await: the button is disabled, the label
\* and the status are set and fetch() is called.  The user submits through
\* the submit button, which the browser allows while it is not disabled.
Submit ==
  /\ form.listening
  /\ ~form.disabled
  /\ sent.count < MaxSubmits
  /\ form' = [form EXCEPT !.disabled = TRUE, !.label = LabelSending,
                          !.status = "", !.request = "pending"]
  /\ sent' = [sent EXCEPT !.count = @ + 1]
  /\ UNCHANGED <<innerWidth, resizes, engineVars, dom0, dom, rsp>>

\* (mutant) the listener returns from its catch block: after a network
\* error the button is not restored
SettleReturning(o) ==
  /\ form.request = "pending"
  /\ form' = [form EXCEPT
                !.status = StatusText(o),
                !.fields = IF o = "ok" THEN {} ELSE @,
                !.disabled = (o = "error"),
                !.label = IF o = "error" THEN @ ELSE LabelSend,
                !.request = "none"]
  /\ sent' = [sent EXCEPT !.outcome = o]
  /\ UNCHANGED <<innerWidth, resizes, engineVars, dom0, dom, rsp>>

\* The listener after its await, the request settled with outcome o: the
\* status is written, the form is reset when the response is ok, and the
\* button is restored
Settle(o) ==
  /\ form.request = "pending"
  /\ form' = [form EXCEPT
                !.status = StatusText(o),
                !.fields = IF o = "ok" THEN {} ELSE @,
                !.disabled = FALSE,
                !.label = LabelSend,
                !.request = "none"]
  /\ sent' = [sent EXCEPT !.outcome = o]
  /\ UNCHANGED <<innerWidth, resizes, engineVars, dom0, dom, rsp>>

NextForm ==
  \/ FormConstruct
  \/ OpenModal
  \/ CloseModal
  \/ \E f \in FormFields : EditField(f)
  \/ Submit
  \/ \E o \in Outcomes : Settle(o)

SpecForm == InitForm /\ [][NextForm]_vars

----------------------------------------------------------------------------
(* Properties *)

Stars == 1 .. Len(stars)

\* star i has been through updateStar in the current or the last frame
Stepped(i) == pc = "idle" \/ (pc = "respawn" /\ i < cur)

\* the step taken is the respawn of star cur: its samples were accepted
RespawnStep == pc = "respawn" /\ (pc' = "idle" \/ cur' > cur)

\* C1: immediately after a frame step every particle's depth is > 0, also
\* on the steps that respawned it.
C1_DepthPositive == \A i \in Stars : Stepped(i) => stars[i].z > 0

\* C2: every particle returned by spawnStar projects to a screen point at a
\* distance >= minRadius from the screen centre.
C2_OutsideDeadZone ==
  (variant = "Starstream" /\ ret.set) =>
    DistanceAtLeast(ret.x, ret.y, ret.z, cfg.minRadius)

\* C3: in every reachable state each trail holds at most trailLength points
\* (at most 8 in Starfield).
C3_TrailBounded ==
  \A i \in Stars :
    Len(stars[i].trail) <= (IF variant = "Starfield" THEN 8 ELSE cfg.trailLength)

\* C3 witness: a star with a full trail has been stepped again after a resize
C3_Witness ==
  \E i \in Stars : /\ Len(stars[i].trail) = TrailCap
                   /\ age[i] > TrailCap
                   /\ width # 0 /\ resizes > 0 /\ ~resizeTimer

\* C4: n steps after its spawn a star's trail holds exactly the
\* min(n, trailLength) most recent projected positions, oldest first: the
\* oldest retained one is that of step n - trailLength + 1 once n >= trailLength.
C4_TrailIsRecentHistory ==
  \A i \in Stars :
    LET m == Min(age[i], TrailCap) IN
    /\ Len(stars[i].trail) = m
    /\ Points(stars[i].trail) = LastN(hist[i], m)

\* C4 witness: trailLength = 4 and 10 steps without a respawn: the trail
\* holds 4 points and the record one older point that the trail dropped
C4_Witness ==
  /\ variant = "Starstream"
  /\ cfg.trailLength = 4
  /\ \E i \in Stars : /\ age[i] = 10
                      /\ Len(stars[i].trail) = 4
                      /\ Len(hist[i]) = 5
                      /\ hist[i][1] # hist[i][2]

\* the scenario of C5: numStars = 1, defaultSpeed = 10, minRadius = 0
Scenario ==
  /\ variant = "Starstream"
  /\ cfg.numStars = 1 /\ cfg.defaultSpeed = 10 /\ cfg.minRadius = 0
  /\ pc = "idle"
  /\ frames < MaxFrames

\* C5 as stated: after z0/10 steps exactly one respawn has occurred and it
\* left the trail with length 0.
C5_RespawnLeavesEmptyTrail ==
  (Scenario /\ 10 * frames = z0[1]) =>
    (respawns[1] = 1 /\ Len(stars[1].trail) = 0)

\* C5 amended: after z0/10 steps the depth has crossed below 1, exactly one
\* respawn has occurred, in step z0/10 itself (the steps before it lower the
\* depth by 10 each and leave it >= 1), and that step cleared the trail and
\* then recorded the respawned position: the trail has length 1, not 0.
\* The step after the respawn adds a second point, unless the respawned
\* depth was below 11: then it respawns the star again and the trail has
\* length 1 again.
C5_RespawnRestartsTrail ==
  /\ [](Scenario /\ 10 * frames < z0[1] =>
          /\ respawns[1] = 0
          /\ stars[1].z = z0[1] - 10 * frames
          /\ stars[1].z >= 1
          /\ Len(stars[1].trail) = frames)
  /\ [](Scenario /\ 10 * frames = z0[1] =>
          /\ respawns[1] = 1
          /\ age[1] = 1
          /\ Len(stars[1].trail) = 1)
  /\ [][(Scenario /\ 10 * frames = z0[1] /\ frames' # frames) =>
         ((pc' = "respawn") <=> (stars[1].z < 11))]_vars
  /\ [](Scenario /\ frames > 1 /\ 10 * (frames - 1) = z0[1] =>
          \/ /\ respawns[1] = 1
             /\ age[1] = 2
             /\ Len(stars[1].trail) = 2
          \/ /\ respawns[1] = 2
             /\ age[1] = 1
             /\ Len(stars[1].trail) = 1)

\* C5 witness: the step after the respawn of step z0/10 of the scenario, which
\* came after more than one step, has added the second point of the new trail
C5_Witness ==
  /\ Scenario
  /\ 10 * (frames - 1) = z0[1]
  /\ frames > 2
  /\ respawns[1] = 1
  /\ age[1] = 2
  /\ Len(stars[1].trail) = 2

\* C6: immediately after a respawn step the respawned star's depth is in
\* [width, width + 200).
C6_RespawnAtFarPlane ==
  [][RespawnStep =>
       (stars'[cur].z >= width /\ stars'[cur].z < width + 200)]_vars

\* the effects of a constructor: canvas sized, transform set, listener
\* registered, timer, stars, frame request
Untouched ==
  /\ canvas = DefaultCanvas
  /\ transform = 0
  /\ ~listener
  /\ ~resizeTimer
  /\ stars = <<>>
  /\ ~rafPending

\* C9: without the canvas element the constructor throws before any other
\* effect: canvas size unchanged, no listener, no particle, no frame scheduled.
C9_MissingCanvasThrowsFirst ==
  canvasEl = "missing" => (pc \in {"new", "thrown"} /\ Untouched)

\* C9 witness: the constructor has thrown and a later resize finds no listener
C9_Witness == canvasEl = "missing" /\ pc = "thrown" /\ resizes > 0

\* C10: when getContext gives null the constructor fails and leaves no frame
\* loop, no resize listener and no particle behind.
C10_NoContextFails ==
  canvasEl = "noctx" =>
    /\ pc \in {"new", "thrown"}
    /\ ~rafPending
    /\ ~listener /\ ~resizeTimer
    /\ stars = <<>>

\* C10 witness: the constructor has thrown after sizing the canvas, and a
\* later resize finds no listener
C10_Witness ==
  canvasEl = "noctx" /\ pc = "thrown" /\ canvas # DefaultCanvas /\ resizes > 0

\* a spawn is waiting for samples: initStars or a respawn is under way
InLoop == pc \in {"initStars", "respawn"}

\* some sample Math.random() can produce projects to a distance >= minRadius
SomeSampleOutside ==
  \E rx \in Rand, ry \in Rand, rz \in Rand :
    DistanceAtLeast(Offset(rx, maxRadius), Offset(ry, maxRadius),
                    Depth(rz, width), cfg.minRadius)

\* C7: under fair sampling the rejection loop of spawnStar ends whenever some
\* sample lies outside the dead zone, so construction completes and every
\* frame that respawns a star reaches its end.
C7_SpawnTerminates ==
  (\/ pc = "new" /\ canvasEl = "ok"
   \/ InLoop /\ SomeSampleOutside)
    ~> (pc = "idle" /\ Len(stars) = cfg.numStars)

\* C7 witness: the loop is running after it rejected a sample, in a
\* configuration where a sample outside the dead zone exists
C7_Witness ==
  /\ variant = "Starstream"
  /\ InLoop
  /\ loc # NoLoc
  /\ cfg.minRadius > 0
  /\ SomeSampleOutside

\* C8: constructed with minRadius > maxRadius the engine fails construction
\* or bounds the rejection loop: a spawn always ends, whatever is sampled.
C8_LoopBounded ==
  (variant = "Starstream" /\ cfg.minRadius > maxRadius /\ InLoop) ~> ~InLoop

\* initStars has returned and draw() was entered: by the constructor, whose
\* last statement is this.draw(), or by a frame callback
Started == pc \in {"idle", "respawn"}

\* construction has succeeded: the constructor returned, frames are running.
\* A respawn inside the first draw() is still inside the constructor.
Constructed == pc = "idle" \/ (pc = "respawn" /\ frames > 1)

\* C11: after construction the number of particles equals numStars in every
\* state; no frame, respawn or resize changes it, and a respawn re-seeds the
\* record at its own position, leaving the stars stepped before it alone.
C11_ParticleCountConstant ==
  /\ [](Constructed => Len(stars) = cfg.numStars)
  /\ [][Constructed => Len(stars') = Len(stars)]_vars
  /\ [][RespawnStep => \A i \in 1 .. (cur - 1) : stars'[i] = stars[i]]_vars

\* C11 witness: two stars, both respawned, after a resize was applied
C11_Witness ==
  /\ pc = "idle"
  /\ Len(stars) = 2
  /\ respawns[1] > 0 /\ respawns[2] > 0
  /\ resizes > 0 /\ ~resizeTimer /\ width = innerWidth

\* the step taken runs a debounce callback
Fired == Len(timeouts') < Len(timeouts)

\* the layout: stored width and height, canvas size, transform
Layout == <<width, height, canvas, transform>>

\* the layout for the current viewport, with the ratio read by initCanvas
LaidOut ==
  /\ width = innerWidth
  /\ height = innerHeight
  /\ canvas = [width |-> innerWidth * transform, height |-> innerHeight * transform]

\* C12: in a burst of resize events, each less than 150 ms after the one
\* before, the re-layout is applied exactly once, 150 ms after the last
\* event, for the viewport of that moment; no earlier event applies one and
\* at most one timeout is pending at any time.
C12_DebounceOnce ==
  /\ [](Len(timeouts) <= 1)
  /\ []((listener /\ resizes > 0) =>
          IF relayouts = 0
          THEN timeouts = <<Debounce - sinceResize>>
          ELSE relayouts = 1 /\ timeouts = <<>> /\ sinceResize = Debounce /\ LaidOut)
  /\ [][Fired => (sinceResize = Debounce /\ relayouts = 0 /\ LaidOut')]_vars
  /\ [][(Constructed /\ Layout' # Layout) => Fired]_vars

\* C12 witness: a burst of two events for different viewports, the second
\* while the timeout of the first was pending, and the re-layout applied
\* once, after the second
C12_Witness ==
  /\ Len(burst) = 2 /\ burst[1] # burst[2]
  /\ relayouts = 1
  /\ pc = "idle"
  /\ width = innerWidth /\ canvas.width # width
  /\ \E i \in Stars : age[i] > 0

\* the step taken is a 'resize' event that repeats the viewport of the event
\* before it, with no time passed since and that event's timeout pending
RepeatedResize ==
  /\ resizes' = resizes + 1
  /\ timeouts # <<>>
  /\ sinceResize = 0
  /\ innerWidth' = innerWidth /\ innerHeight' = innerHeight

\* the state of the engine and of the host, without the history
Engine ==
  <<pc, width, height, maxRadius, canvas, transform, listener, resizeTimer,
    timeouts, rafPending, stars, cur, loc, innerWidth, innerHeight>>

\* C13: firing the resize handler twice in immediate succession with the
\* same viewport inside one debounce window gives the same final state as
\* firing it once: the second firing leaves the engine, the pending timeout
\* included, as the first left it, and the one re-layout that follows is
\* that of the viewport.
C13_ResizeIdempotent ==
  /\ [][RepeatedResize => Engine' = Engine]_vars
  /\ []((Len(burst) >= 1 /\ relayouts > 0) => (relayouts = 1 /\ LaidOut))

\* C13 witness: the handler fired twice at once for one new viewport, and the
\* re-layout has been applied
C13_Witness ==
  /\ Len(burst) = 2 /\ burst[1] = burst[2]
  /\ burst[1] # <<40, 24>> /\ devicePixelRatio = 0
  /\ relayouts = 1
  /\ width = 80 /\ canvas.width = 80

\* the last point of star i's trail is its projection under width w, height h
TracedUnder(i, w, h) ==
  /\ stars[i].trail # <<>>
  /\ Points(stars[i].trail)[Len(stars[i].trail)] = Project(stars[i], w, h)

\* C14: the debounce callback changes only the stored width and height, the
\* canvas size and the transform: the particles, the configuration and the
\* pending frame stay as they are and nothing is drawn; the frames after it
\* project around the centre of the new width and height.
C14_RelayoutOnly ==
  /\ [][Fired => /\ stars' = stars
                 /\ cfg' = cfg /\ maxRadius' = maxRadius
                 /\ rafPending' = rafPending /\ pc' = pc
                 /\ frames' = frames /\ hist' = hist /\ age' = age]_vars
  /\ [][\A i \in Stars :
         (i \in DOMAIN age' /\ age'[i] # age[i] /\ age'[i] > 0)
           => TracedUnder(i, width, height)']_vars

\* C14 witness: a frame has stepped a star after the re-layout from the
\* viewport 40 x 24 to 80 x 40, around the new centre
C14_Witness ==
  /\ devicePixelRatio = 0
  /\ relayouts = 1
  /\ width = 80 /\ height = 40
  /\ pc = "idle"
  /\ \E i \in Stars : /\ age[i] > 1
                      /\ stars[i].z > 0
                      /\ TracedUnder(i, 80, 40)
                      /\ ~TracedUnder(i, 40, 24)

\* the first star the step taken passes through updateStar: the loop of
\* draw() starts at star 1 or resumes at the star that waited for samples
From == IF pc = "idle" THEN 1 ELSE cur

\* the star at which the step taken stops: the one that waits for samples,
\* or the end of the loop
To == IF pc' = "idle" THEN Len(stars) + 1 ELSE cur'

\* the step taken belongs to a frame: draw() starts, or its loop goes on
FrameStep == Started /\ (pc = "respawn" \/ pc' = "respawn" \/ age' # age)

\* C15: frames are strictly serialised.  While a frame runs no frame
\* callback is pending; a frame starts only from the pending callback that
\* the frame before set after its pass; every step of a frame takes the
\* stars in order, each once, and the callback of the next frame is
\* requested exactly when the pass has reached the last star.
C15_FramesSerialised ==
  /\ [](pc \in {"initStars", "respawn"} => ~rafPending)
  /\ [][FrameStep =>
         /\ pc = "idle" => rafPending
         /\ From <= To
         /\ \A i \in Stars :
              /\ (From <= i /\ i < To) =>
                   age'[i] = (IF pc = "respawn" /\ i = cur THEN 1 ELSE age[i] + 1)
              /\ (i < From \/ i >= To) => age'[i] = age[i]
              /\ (i < From \/ i > To) => stars'[i] = stars[i]
         /\ rafPending' = (pc' = "idle")]_vars

\* C15 witness: a frame after the first has stepped star 1 and waits for
\* the samples of star 2; no callback is pending
C15_Witness ==
  /\ pc = "respawn"
  /\ Len(stars) = 2 /\ cur = 2
  /\ frames > 1
  /\ age[1] > 1
  /\ loc # NoLoc
  /\ ~rafPending

\* C16: once construction has succeeded the frame loop never stops.  Between
\* callbacks a frame is always pending, every frame that ends has requested
\* the next one, every frame under way ends, and with the host running the
\* pending callbacks the stars are stepped again and again.
C16_FrameLoopForever ==
  /\ []((Constructed /\ pc = "idle") => rafPending)
  /\ [][(FrameStep /\ pc' = "idle") => rafPending']_vars
  /\ [](Started => <>(pc = "idle" /\ rafPending))
  /\ (<>[](stars # <<>>) => []<><<Draw>>_vars)

\* C16 witness: frames have run past the counted ones, with a respawn on the
\* way, and the next frame is pending
C16_Witness ==
  /\ pc = "idle" /\ rafPending
  /\ frames = MaxFrames
  /\ ret.set
  /\ \E i \in Stars : age[i] > 0

\* the configuration is malformed: no particle, or a speed that is not positive
Malformed == cfg.numStars = 0 \/ Speed <= 0

\* C17: with numStars = 0 or defaultSpeed <= 0 construction still succeeds
\* and the frame loop keeps running without an error: the constructor does not
\* throw, every frame ends with the next one requested, an engine without
\* particles stays without, and a star that is not respawned moves by the
\* speed as given, so away from the camera or not at all, and is respawned
\* only from a depth below 1.
C17_MalformedKeepsRunning ==
  /\ []((Malformed /\ canvasEl = "ok") => pc # "thrown")
  /\ []((Malformed /\ pc = "idle") => rafPending)
  /\ []((cfg.numStars = 0 /\ Constructed) => (stars = <<>> /\ pc = "idle"))
  /\ [][(Malformed /\ FrameStep /\ pc' = "idle") => rafPending']_vars
  /\ [][\A i \in Stars :
         (Malformed /\ age'[i] = age[i] + 1 /\ ~(pc = "respawn" /\ i = cur))
           => stars'[i].z = stars[i].z - Speed]_vars
  /\ [][(Speed <= 0 /\ Started /\ pc' = "respawn" /\ cur' # cur)
          => stars[cur'].z < NearThreshold]_vars

\* C17 witness: with a negative speed three frames have run, the star has
\* moved away from the camera and the next frame is pending
C17_Witness ==
  /\ cfg.defaultSpeed < 0
  /\ pc = "idle" /\ rafPending
  /\ frames >= 3
  /\ \E i \in Stars : age[i] >= 3 /\ stars[i].z > width

\* C18 (as stated): whenever the viewport width is above the breakpoint, nav
\* and footer are children of their original parents at their original
\* positions: the element order of the page is that of page load.
C18_RoundTrip ==
  (rsp.state = "ready" /\ innerWidth > Breakpoint) => dom = dom0

\* C19: after construction and after every resize event, whenever the
\* viewport width is below the breakpoint the nav is the first child of the
\* main container and the footer is its last child.
C19_MobileOrder ==
  (rsp.state = "ready" /\ innerWidth < Breakpoint) =>
    /\ firstChild(dom, "main") = "nav"
    /\ lastChild(dom, "main") = "footer"
    /\ ~Has(dom.body, "nav") /\ ~Has(dom.body, "footer")

\* C19 witness: nav and footer, children of body at page load, are in #main
\* around its own content below the breakpoint, after a stay above it
C19_Witness ==
  /\ rsp.state = "ready"
  /\ innerWidth < Breakpoint
  /\ resizes = 2
  /\ parentNode(dom0, "nav") = "body" /\ parentNode(dom0, "footer") = "body"
  /\ dom.main = <<"nav", "c", "footer">>

\* C20: whatever the outcome of a submission, the submit button ends enabled
\* with the label 'Send Message' and the status line is that of the outcome;
\* the form is reset exactly when the response is ok; the button is disabled,
\* with the sending label, from the submit event until the request settles.
C20_SubmitRestores ==
  /\ []((form.request = "none" /\ sent.count > 0) =>
          /\ ~form.disabled
          /\ form.label = LabelSend
          /\ sent.outcome \in Outcomes
          /\ form.status = StatusText(sent.outcome))
  /\ [](form.request = "pending" =>
          (form.disabled /\ form.label = LabelSending /\ form.status = ""))
  /\ [][(form.fields # {} /\ form.fields' # form.fields /\ form.fields' = {})
          => (form.request = "pending" /\ sent.outcome' = "ok")]_vars
  /\ [][(form.request = "pending" /\ form.request' = "none" /\ sent.outcome' = "ok")
          => form.fields' = {}]_vars
  /\ [][(form.request = "pending" /\ form.request' = "none" /\ sent.outcome' # "ok")
          => form.fields' = form.fields]_vars

\* C20 witness: a second submission has ended with a network error after a
\* first one settled: the typed fields are kept and the button is enabled
C20_Witness ==
  /\ sent.count = 2
  /\ sent.outcome = "error"
  /\ form.request = "none"
  /\ form.fields = FormFields
  /\ ~form.disabled /\ form.label = LabelSend
  /\ form.status = StatusText("error")

\* the depth star i had before the step taken: a star pushed by this step
\* had the depth its spawn returned
DepthBefore(i) == IF i \in DOMAIN stars THEN stars[i].z ELSE ret'.z

\* the steps star i had been through before the step taken
AgeBefore(i) == IF i \in DOMAIN age THEN age[i] ELSE 0

\* the step taken passes star i through updateStar without a respawn
PlainStep(i) ==
  /\ i \in DOMAIN age'
  /\ age'[i] = AgeBefore(i) + 1
  /\ ~(pc = "respawn" /\ i = cur)

\* the step taken decrements star i and stops in updateStar to respawn it
RespawnStarts(i) == pc' = "respawn" /\ cur' = i /\ ~(pc = "respawn" /\ cur = i)

\* C21: a star is respawned on a step exactly when its depth after the
\* decrement is < 1, and not at a depth of exactly 1.  The respawn is
\* completed inside that step of that frame: nothing else runs before it,
\* x, y and z are the values the spawn returned and the step ends with a
\* trail of one point, the projection of the new values.
C21_RespawnInStep ==
  /\ [][\A i \in DOMAIN stars' :
         /\ PlainStep(i) =>
              (stars'[i].z = DepthBefore(i) - Speed /\ stars'[i].z >= 1)
         /\ RespawnStarts(i) =>
              (stars'[i].z = DepthBefore(i) - Speed /\ stars'[i].z < 1)]_vars
  /\ [][pc = "respawn" =>
         /\ RespawnStep \/ (pc' = "respawn" /\ cur' = cur /\ stars' = stars)
         /\ width' = width /\ height' = height /\ frames' = frames]_vars
  /\ [][RespawnStep =>
         /\ stars[cur].z < 1
         /\ stars'[cur].x = ret'.x /\ stars'[cur].y = ret'.y /\ stars'[cur].z = ret'.z
         /\ Points(stars'[cur].trail) = <<Project(stars'[cur], width, height)>>
         /\ age'[cur] = 1]_vars

\* C21 witness: a star that was respawned has since been stepped to a depth
\* of exactly 1 and was not respawned there
C21_Witness ==
  /\ pc = "idle"
  /\ \E i \in Stars : /\ stars[i].z = 1
                      /\ respawns[i] = 1
                      /\ age[i] = 2
                      /\ Len(stars[i].trail) = 2

\* the step taken completes the respawn of star i
RespawnOf(i) == RespawnStep /\ i = cur

\* C22: on a step in which a star is not respawned its depth decreases by
\* exactly the speed and its x, y and base radius stay as they are; x, y and
\* radius change only at a respawn, and the depth changes only in updateStar.
C22_LinearDepth ==
  [][\A i \in DOMAIN stars' :
       IF i \in DOMAIN stars
       THEN /\ PlainStep(i) =>
                 /\ stars'[i].z = stars[i].z - Speed
                 /\ stars'[i].x = stars[i].x
                 /\ stars'[i].y = stars[i].y
                 /\ stars'[i].radius = stars[i].radius
            /\ (\/ stars'[i].x # stars[i].x
                \/ stars'[i].y # stars[i].y
                \/ stars'[i].radius # stars[i].radius) => RespawnOf(i)
            /\ stars'[i].z # stars[i].z =>
                 (PlainStep(i) \/ RespawnStarts(i) \/ RespawnOf(i))
       ELSE PlainStep(i) =>
                 /\ stars'[i].z = ret'.z - Speed
                 /\ stars'[i].x = ret'.x
                 /\ stars'[i].y = ret'.y]_vars

\* C22 witness: a star off the axis, never respawned, has been stepped three
\* times or more: it is 3 speeds or more closer, at the x and y it was given
C22_Witness ==
  /\ pc = "idle"
  /\ frames < MaxFrames
  /\ Speed > 0
  /\ \E i \in Stars : /\ respawns[i] = 0
                      /\ age[i] >= 3
                      /\ stars[i].z = z0[i] - Speed * age[i]
                      /\ stars[i].x # 0 /\ stars[i].y # 0
                      /\ hist[i][1] = Project([stars[i] EXCEPT !.z = z0[i] - Speed],
                                               width, height)

\* the trail star i had before the step taken: empty for a star just pushed
TrailBefore(i) == IF i \in DOMAIN stars THEN stars[i].trail ELSE <<>>

\* the step taken carries star i through the rest of updateStar: projection,
\* updateTrail and the drawing
Completes(i) == PlainStep(i) \/ RespawnOf(i)

\* C23: in every frame each star goes through updateStar exactly once.  The
\* call decrements the depth once, projects the star once and adds the
\* projected point to the trail as its newest point; the trail is drawn after
\* that, with the new point in it, and the head at the projected point.
\* Nothing is drawn for a star outside its step.
C23_SteppedOncePerFrame ==
  /\ [](Started =>
          \A i \in Stars : painted[i].steps = (IF Stepped(i) THEN 1 ELSE 0))
  /\ [][\A i \in DOMAIN stars' :
         Completes(i) =>
           LET s == stars'[i]
               n == Len(s.trail)
               p == Project(s, width, height)
               d == painted'[i]
           IN  /\ PlainStep(i) => s.z = DepthBefore(i) - Speed
               /\ n = (IF RespawnOf(i) THEN 1 ELSE Min(Len(TrailBefore(i)) + 1, TrailCap))
               /\ n > 0 => Points(s.trail)[n] = p
               /\ d.head.x = p.x /\ d.head.y = p.y
               /\ Len(d.strokes) = Max(n - 1, 0)
               /\ \A k \in 1 .. Len(d.strokes) :
                     /\ d.strokes[k].p2 = Points(s.trail)[k]
                     /\ d.strokes[k].p1 = Points(s.trail)[k + 1]]_vars
  /\ [][\A i \in DOMAIN stars \cap DOMAIN stars' :
         (\/ painted'[i].head # painted[i].head
          \/ painted'[i].strokes # painted[i].strokes
          \/ stars'[i].trail # stars[i].trail) => Completes(i)]_vars

\* C23 witness: a frame over two stars has ended, each star stepped once in
\* it, one of them drawn with a stroke that ends at its new point, the head
\* there too
C23_Witness ==
  /\ pc = "idle"
  /\ Len(stars) = 2
  /\ frames >= 2
  /\ \A i \in Stars : painted[i].steps = 1
  /\ \E i \in Stars :
       /\ Len(painted[i].strokes) = 1
       /\ painted[i].strokes[1].p1 = Project(stars[i], width, height)
       /\ painted[i].strokes[1].p1 # painted[i].strokes[1].p2
       /\ painted[i].head.x = painted[i].strokes[1].p1.x

\* the width and height that the steps of the current frame projected with
FrameDims == { painted[i].under : i \in { j \in Stars : Stepped(j) } }

\* C24: the debounce callback runs between frames only and sets width and
\* height together, to the viewport of that moment.  The stored pair is
\* always a viewport the window had, and all the stars stepped in one frame
\* are projected with one pair, the stored one while the frame runs.
C24_FrameSeesOneViewport ==
  /\ [][(Started /\ (width' # width \/ height' # height)) =>
         /\ Fired
         /\ pc = "idle" /\ pc' = "idle"
         /\ width' = innerWidth /\ height' = innerHeight]_vars
  /\ [][InLoop => (width' = width /\ height' = height)]_vars
  /\ [](Started => <<width, height>> \in Viewports)
  /\ [](Started => (FrameDims = {} \/ \E vp \in Viewports : FrameDims = {vp}))
  /\ []((pc = "respawn" /\ cur > 1) => FrameDims = {<<width, height>>})
  /\ [][(FrameStep /\ pc' = "idle" /\ stars # <<>>) =>
         (FrameDims' = { <<width, height>> })]_vars

\* C24 witness: the viewport went from 40 x 24 to 80 x 40 and the callback
\* ran between two frames; the frame after it has stepped star 1 with the
\* new pair and waits for the samples of star 2, whose last step was
\* projected with the old pair
C24_Witness ==
  /\ pc = "respawn" /\ cur = 2
  /\ Len(stars) = 2
  /\ relayouts = 1
  /\ width = 80 /\ height = 40
  /\ painted[1].under = <<80, 40>>
  /\ painted[2].under = <<40, 24>>

\* the point objects of a trail
Slots(trail) == { trail[k].slot : k \in 1 .. Len(trail) }

\* C25: on a step that does not respawn a star whose trail is at capacity,
\* updateTrail makes no new point object: the trail holds the same objects
\* as before, as many as the capacity; the object that held the oldest point
\* now holds the new (px, py) and is the newest element; every other object
\* keeps its point and moves one place towards the oldest end, in order.
C25_OldestSlotReused ==
  [][\A i \in DOMAIN stars \cap DOMAIN stars' :
       (PlainStep(i) /\ Len(stars[i].trail) = TrailCap) =>
         LET old == stars[i].trail
             new == stars'[i].trail
             n   == Len(old)
         IN  /\ Len(new) = n
             /\ Slots(new) = Slots(old)
             /\ Cardinality(Slots(new)) = n
             /\ new[n].slot = old[1].slot
             /\ Points(new)[n] = Project(stars'[i], width, height)
             /\ \A k \in 1 .. (n - 1) : new[k] = old[k + 1]]_vars

\* C25 witness: a trail of capacity 4 after 6 steps without a respawn: the
\* objects pushed first and second have been reused and are the newest two
C25_Witness ==
  /\ pc = "idle"
  /\ TrailCap = 4
  /\ \E i \in Stars :
       /\ age[i] = 6
       /\ [k \in 1 .. 4 |-> stars[i].trail[k].slot] = <<3, 4, 1, 2>>
       /\ stars[i].trail[3] # stars[i].trail[4]

\* C26 (as stated): for a trail of L >= 2 points drawTrail draws L - 1
\* strokes, one per consecutive pair, whose width and opacity increase
\* strictly from the oldest pair to the newest; the newest stroke is drawn
\* at the head radius and at the maximum opacity 0.5.
C26_TrailTapers ==
  \A i \in Stars :
    LET trail == stars[i].trail
        d     == painted[i]
        n     == Len(d.strokes)
    IN  (age[i] > 0 /\ Len(trail) >= 2) =>
          /\ n = Len(trail) - 1
          /\ \A k \in 1 .. n :
                /\ d.strokes[k].p2 = Points(trail)[k]
                /\ d.strokes[k].p1 = Points(trail)[k + 1]
          /\ \A k \in 1 .. (n - 1) :
                /\ FracLess(d.strokes[k].lineWidth, d.strokes[k + 1].lineWidth)
                /\ FracLess(d.strokes[k].alpha, d.strokes[k + 1].alpha)
          /\ d.strokes[n].lineWidth = d.head.radius
          /\ d.strokes[n].alpha = <<1, 2>>

\* the offset c lies in [-m / 2, m / 2]
Within(c, m) == 2 * Abs(c) <= m

\* C27 (as stated): when no maxRadius is configured, every spawn and
\* respawn, also after a resize has been applied, samples x and y within
\* [-M / 2, M / 2], M being the larger of the stored width and height at
\* that moment.
C27_SpawnWithinSurface ==
  [][(InLoop /\ cfg.maxRadius = 0) =>
       LET m == Max(width, height) IN
       /\ loc' # NoLoc => (Within(loc'.x, m) /\ Within(loc'.y, m))
       /\ stars' # stars => (Within(ret'.x, m) /\ Within(ret'.y, m))]_vars

\* ceil(a / b) for b > 0
CeilDiv(a, b) == (a + b - 1) \div b

\* the frames within which a star at depth z is respawned, as stated
CeilFrames(z) == CeilDiv(z, Speed)

\* the same, a star at depth 0 being respawned by the next frame
FramesLeft(z) == Max(1, CeilDiv(z, Speed))

\* with frames delivered forever the one star of the engine is respawned
\* again and again
RespawnsForever == (<>[](Len(stars) = 1)) => []<><<RespawnStep /\ cur = 1>>_vars

\* C28 (as stated): with speed > 0 and frames delivered forever every star
\* is respawned infinitely often, a star at depth z within ceil(z / speed)
\* frames: the frame that respawns it is one of that many, and a frame that
\* does not respawn it leaves one frame fewer.
C28_RespawnWithinCeil ==
  /\ RespawnsForever
  /\ [][\A i \in DOMAIN stars' :
         Speed > 0 =>
           /\ RespawnStarts(i) => CeilFrames(DepthBefore(i)) >= 1
           /\ PlainStep(i) =>
                (/\ CeilFrames(stars'[i].z) = CeilFrames(DepthBefore(i)) - 1
                 /\ CeilFrames(stars'[i].z) >= 1)]_vars

\* C28 amended: with speed > 0 and frames delivered forever every star is
\* respawned infinitely often; a star at depth z > 0 is respawned within
\* ceil(z / speed) frames and a star at depth 0 by the next frame.  A frame
\* that does not respawn the star leaves one frame fewer, and a star that
\* was never respawned has been stepped fewer times than its frames at
\* creation.
C28_RespawnWithinFrames ==
  /\ RespawnsForever
  /\ [][\A i \in DOMAIN stars' :
         (Speed > 0 /\ PlainStep(i)) =>
           FramesLeft(stars'[i].z) = FramesLeft(DepthBefore(i)) - 1]_vars
  /\ [](\A i \in Stars :
          (Speed > 0 /\ pc = "idle" /\ frames < MaxFrames /\ respawns[i] = 0) =>
            (age[i] = frames /\ age[i] < FramesLeft(z0[i])))

\* C28 witness: four frames at speed 19: the star was respawned in the
\* second and in the fourth, each time two frames after it was at depth 20
C28_Witness ==
  /\ Speed = 19
  /\ pc = "idle" /\ rafPending
  /\ frames = 4
  /\ \E i \in Stars : /\ z0[i] = 20
                      /\ respawns[i] = 2
                      /\ age[i] = 1

====
